---- MODULE Spec2Model ----
(***************************************************************************)
(* rc-update (src/rc/rc-update.c): command resolution, argument            *)
(* validation, the add/delete batch and the show report, run against a     *)
(* service registry (librc).  One process is one invocation of rc_update;  *)
(* a world is one registry.  Steps are taken at the granularity of single  *)
(* registry calls.                                                         *)
(***************************************************************************)
EXTENDS Integers, Sequences, FiniteSets, TLC

\* ------------------------------------------------------------------ bounds
\* Longest positional argument list drawn for an invocation.
MaxArgs == 3
\* How many runlevels the environment may remove during a behaviour.
MaxRemovals == 1

\* --------------------------------------------------------- program constants
DOADD == 2
DODELETE == 4
DOSHOW == 8
EXIT_SUCCESS == 0
EXIT_FAILURE == 1

NULL == "(null)"

\* ------------------------------------------------------------------ universe
Procs == {1, 2}
Worlds == {1, 2}

\* The runlevels a registry starts with, in rc_runlevel_list order.
AllRunlevels == <<"default", "boot">>
RunlevelNames == {"default", "boot"}
\* The services a registry knows, in rc_services_in_runlevel(NULL) order.
AllServices == <<"sshd", "cron">>
ServiceNames == {"sshd", "cron"}
\* Words an operator may type as positional arguments.
Tokens == {"add", "delete", "del", "show", "sshd", "default", "boot", "bogus"}
\* Getopt letters of the three commands.
Flags == {"a", "d", "s"}

\* Positional argument lists: any token in the first place (a command word or
\* a service), a service or a runlevel candidate in the second, runlevel
\* candidates after them.
SecondTokens == {"sshd", "default", "boot", "bogus"}
TailTokens == {"default", "boot", "bogus"}
ArgLists ==
  UNION { { a \in [1..n -> Tokens] :
              /\ n >= 2 => a[2] \in SecondTokens
              /\ \A k \in 3..n : a[k] \in TailTokens }
          : n \in 0..MaxArgs }

VARIABLES
  members,      \* [world -> set of <<runlevel, service>>]: the membership relation
  rlExists,     \* [world -> set of runlevel names that exist]
  broken,       \* [world -> set of runlevels whose directory rejects changes]
  current,      \* [world -> current runlevel, or NULL]
  removals,     \* number of runlevels the environment has removed
  world,        \* [proc -> world the invocation runs against]
  pc,           \* [proc -> position in rc_update]
  argv,         \* [proc -> positional arguments left by getopt_long]
  optind,       \* [proc -> index (1-based) of the next positional argument]
  action,       \* [proc -> bitmask of DOADD, DODELETE, DOSHOW]
  verbose,      \* [proc -> rc_yesno(getenv("EINFO_VERBOSE"))]
  service,      \* [proc -> service name, or NULL]
  runlevels,    \* [proc -> sequence of runlevel names]
  retval,       \* [proc -> EXIT_SUCCESS or EXIT_FAILURE]
  num_updated,  \* [proc -> running sum of the action's return values]
  i,            \* [proc -> 1-based index into runlevels (STRLIST_FOREACH)]
  out,          \* [proc -> sequence of messages printed: <<function, text, x, y>>]
  calls,        \* [proc -> sequence of registry mutation calls made]
  report,       \* [proc -> sequence of rows printed by show]
  show_i,       \* [proc -> show's i: 1-based index into services]
  show_j,       \* [proc -> show's j: 1-based index into runlevels]
  show_in,      \* [proc -> show's list "in": the cells of the row so far]
  inone,        \* [proc -> show's inone]
  members0      \* [world -> the membership relation at the start]

regvars == <<members, rlExists, broken, current, removals, members0>>
showvars == <<show_i, show_j, show_in, inone>>
locals == <<argv, optind, action, verbose, service, runlevels, retval,
            num_updated, i, out, calls, report, showvars>>
vars == <<regvars, world, pc, locals>>

\* ------------------------------------------------------------- C arithmetic
RECURSIVE BitAnd(_, _)
BitAnd(a, b) ==
  IF a = 0 \/ b = 0 THEN 0
  ELSE (a % 2) * (b % 2) + 2 * BitAnd(a \div 2, b \div 2)

RECURSIVE BitOr(_, _)
BitOr(a, b) ==
  IF a = 0 THEN b
  ELSE IF b = 0 THEN a
  ELSE (IF a % 2 = 1 \/ b % 2 = 1 THEN 1 ELSE 0) + 2 * BitOr(a \div 2, b \div 2)

\* C's logical negation of an int.
LNot(x) == IF x = 0 THEN 1 ELSE 0

Upd(f, p, v) == [f EXCEPT ![p] = v]

\* A printed message: the einfo function, its text and its two arguments.
Msg(fn, text, x, y) == <<fn, text, x, y>>

\* ------------------------------------------------- the registry (librc calls)
rc_service_exists(w, s) == s \in ServiceNames

rc_runlevel_exists(w, r) == r \in rlExists[w]

rc_service_in_runlevel(w, s, r) == <<r, s>> \in members[w]

rc_runlevel_get(w) == current[w]

rc_runlevel_list(w) == SelectSeq(AllRunlevels, LAMBDA r : r \in rlExists[w])

rc_services_in_runlevel(w) == AllServices

\* Whether addMembership succeeds; it fails on a missing service or runlevel,
\* on an existing membership and on a directory that rejects changes.
rc_service_add(w, r, s) ==
  /\ rc_service_exists(w, s)
  /\ rc_runlevel_exists(w, r)
  /\ ~ rc_service_in_runlevel(w, s, r)
  /\ r \notin broken[w]

\* The outcome of removeMembership: "ok", or the errno it fails with.
rc_service_delete(w, r, s) ==
  IF ~ rc_service_in_runlevel(w, s, r) THEN "ENOENT"
  ELSE IF r \in broken[w] THEN "EACCES"
  ELSE "ok"

\* rc_strlist_add appends the item, and ignores a NULL item.
rc_strlist_add(list, item) == IF item = NULL THEN list ELSE Append(list, item)

\* ewarnx prints a warning.  Its body is libeinfo's, and rc-update.c fixes
\* neither of the two things it can do next: call exit (EXIT_FAILURE) like
\* eerrorx, or return to rc_update, which then returns retval.  The outcomes
\* are the place the invocation ends at and its exit status.
ewarnx(rv) == { <<"exited", EXIT_FAILURE>>, <<"done", rv>> }

\* ------------------------------------------------------- command resolution
\* The getopt_long loop: each command letter ORs its bit into action.
ParseOpts(flags) ==
  BitOr(BitOr(IF "a" \in flags THEN DOADD ELSE 0,
              IF "d" \in flags THEN DODELETE ELSE 0),
        IF "s" \in flags THEN DOSHOW ELSE 0)

\* A mutant: only show is tested against the other commands.
MixedCommands_showonly(act) == BitAnd(act, DOSHOW) # 0 /\ act # DOSHOW

\* A mutant: the test is left out.
MixedCommands_never(act) == FALSE

\* "cannot mix commands": some command bit is set and is not the only one.
MixedCommands(act) ==
  \/ (BitAnd(act, DOSHOW) # 0 /\ act # DOSHOW)
  \/ (BitAnd(act, DOADD) # 0 /\ act # DOADD)
  \/ (BitAnd(act, DODELETE) # 0 /\ act # DODELETE)

\* The backwards-compatible command word; 0 when the token is none.
LegacyCommand(tok) ==
  IF tok = "add" THEN DOADD
  ELSE IF tok = "delete" \/ tok = "del" THEN DODELETE
  ELSE IF tok = "show" THEN DOSHOW
  ELSE 0

\* A mutant: the command word is left in place.
LegacyOptind_keep(oi, act) == oi

\* if (action) optind++: a matched command word is consumed.
LegacyOptind(oi, act) == IF act # 0 THEN oi + 1 ELSE oi

\* if (! action & DOSHOW): C parses this as (!action) & DOSHOW.
NoServiceFatal(act) == BitAnd(LNot(act), DOSHOW) # 0

\* exit(EXIT_FAILURE) out of eerrorx or usage, after printing m.  The process
\* ends: what stays of it is its output, its exit status and the command bits;
\* its argument vector and lists are gone.
Exit(p, m) ==
  /\ pc' = Upd(pc, p, "exited")
  /\ retval' = Upd(retval, p, EXIT_FAILURE)
  /\ out' = Upd(out, p, Append(out[p], m))
  /\ argv' = Upd(argv, p, <<>>)
  /\ optind' = Upd(optind, p, 1)
  /\ service' = Upd(service, p, NULL)
  /\ runlevels' = Upd(runlevels, p, <<>>)
  /\ num_updated' = Upd(num_updated, p, 0)
  /\ i' = Upd(i, p, 1)

\* rc_update from its entry to the end of command resolution and the
\* extraction of the service argument.  v is rc_yesno (getenv
\* ("EINFO_VERBOSE")), assigned after the option loop for every command line.
rc_update_resolve(p, flags, args, v) ==
  /\ pc[p] = "idle"
  /\ verbose' = Upd(verbose, p, v)
  /\ LET act0 == ParseOpts(flags)
         argc == Len(args) + 1
         legacy == IF act0 = 0 /\ 1 < argc THEN LegacyCommand(args[1]) ELSE 0
         act1 == IF act0 = 0 THEN legacy ELSE act0
         oi == IF act0 = 0 /\ 1 < argc THEN LegacyOptind(1, legacy) ELSE 1
     IN IF MixedCommands(act0)
        THEN /\ action' = Upd(action, p, act0)
             /\ Exit(p, Msg("eerrorx", "cannot mix commands", NULL, NULL))
        ELSE IF act0 = 0 /\ 1 < argc /\ legacy = 0
        THEN /\ action' = Upd(action, p, 0)
             /\ Exit(p, Msg("eerrorx", "invalid command", args[1], NULL))
        ELSE IF act1 = 0
        THEN /\ action' = Upd(action, p, 0)
             /\ Exit(p, Msg("usage", "usage", NULL, NULL))
        ELSE /\ action' = Upd(action, p, act1)
             /\ IF oi >= argc
                THEN IF NoServiceFatal(act1)
                     THEN Exit(p, Msg("eerrorx", "no service specified",
                                      NULL, NULL))
                     ELSE /\ argv' = Upd(argv, p, args)
                          /\ optind' = Upd(optind, p, oi)
                          /\ pc' = Upd(pc, p, "dispatch")
                          /\ UNCHANGED <<service, retval, out, runlevels,
                                         num_updated, i>>
                ELSE /\ argv' = Upd(argv, p, args)
                     /\ service' = Upd(service, p, args[oi])
                     /\ optind' = Upd(optind, p, oi + 1)
                     /\ pc' = Upd(pc, p, IF oi + 1 < argc THEN "validate"
                                         ELSE "dispatch")
                     /\ UNCHANGED <<retval, out, runlevels, num_updated, i>>
  /\ UNCHANGED <<regvars, world, showvars, calls, report>>

\* A mutant: every token is taken for a runlevel.
ValidRunlevel_any(w, tok) == TRUE

\* if (rc_runlevel_exists (argv[optind]))
ValidRunlevel(w, tok) == rc_runlevel_exists(w, tok)

\* One turn of the validation loop: the next positional argument is added to
\* runlevels if it names an existing runlevel, and is fatal otherwise.
rc_update_validate(p) ==
  /\ pc[p] = "validate"
  /\ LET tok == argv[p][optind[p]]
         argc == Len(argv[p]) + 1
     IN IF ValidRunlevel(world[p], tok)
        THEN /\ runlevels' = Upd(runlevels, p, rc_strlist_add(runlevels[p], tok))
             /\ optind' = Upd(optind, p, optind[p] + 1)
             /\ pc' = Upd(pc, p, IF optind[p] + 1 < argc THEN "validate"
                                 ELSE "dispatch")
             /\ UNCHANGED <<retval, out, argv, service, num_updated, i>>
        ELSE Exit(p, Msg("eerrorx", "is not a valid runlevel", tok, NULL))
  /\ UNCHANGED <<regvars, world, showvars, action, verbose, calls, report>>

\* ------------------------------------------------------------ the dispatch
\* A mutant: the two branches pick each other's function.
ActFunc_swapped(act) ==
  IF BitAnd(act, DOADD) # 0 THEN "delete"
  ELSE IF BitAnd(act, DODELETE) # 0 THEN "add"
  ELSE "invalid"

\* The action function chosen from the command bits.
ActFunc(act) ==
  IF BitAnd(act, DOADD) # 0 THEN "add"
  ELSE IF BitAnd(act, DODELETE) # 0 THEN "delete"
  ELSE "invalid"

\* The runlevel list show gets: the first positional argument is appended to
\* the validated ones; an empty list becomes all runlevels.
ShowRunlevels(w, svc, rls) ==
  LET given == rc_strlist_add(rls, svc)
  IN IF given = <<>> THEN rc_runlevel_list(w) ELSE given

\* A mutant: the default is the first runlevel of the registry's list.
BatchRunlevels_first(w, rls) ==
  IF rls = <<>> THEN SubSeq(rc_runlevel_list(w), 1, 1) ELSE rls

\* The runlevel list of an add or delete: the current runlevel when none was
\* named.
BatchRunlevels(w, rls) ==
  IF rls = <<>> THEN rc_strlist_add(rls, rc_runlevel_get(w)) ELSE rls

\* rc_update from retval = EXIT_SUCCESS to the entry of show or of the
\* STRLIST_FOREACH over the runlevels.
rc_update_dispatch(p) ==
  /\ pc[p] = "dispatch"
  /\ IF BitAnd(action[p], DOSHOW) # 0
     THEN /\ runlevels' = Upd(runlevels, p,
                              ShowRunlevels(world[p], service[p], runlevels[p]))
          /\ retval' = Upd(retval, p, EXIT_SUCCESS)
          /\ pc' = Upd(pc, p, "show")
          /\ UNCHANGED <<out, num_updated, i, argv, optind, service>>
     ELSE /\ IF service[p] = NULL
             THEN /\ out' = Upd(out, p, Append(out[p],
                                Msg("eerror", "no service specified", NULL, NULL)))
                  /\ retval' = Upd(retval, p, EXIT_SUCCESS)
                  /\ pc' = Upd(pc, p, "done")
                  /\ UNCHANGED <<runlevels, num_updated, i, argv, optind, service>>
             ELSE IF ActFunc(action[p]) = "invalid"
             THEN Exit(p, Msg("eerrorx", "invalid action", NULL, NULL))
             ELSE LET rls == BatchRunlevels(world[p], runlevels[p])
                  IN IF rls = <<>>
                     THEN Exit(p, Msg("eerrorx", "no runlevels found", NULL, NULL))
                     ELSE /\ runlevels' = Upd(runlevels, p, rls)
                          /\ retval' = Upd(retval, p, EXIT_SUCCESS)
                          /\ num_updated' = Upd(num_updated, p, 0)
                          /\ i' = Upd(i, p, 1)
                          /\ pc' = Upd(pc, p, "foreach")
                          /\ UNCHANGED <<out, argv, optind, service>>
  /\ UNCHANGED <<regvars, world, showvars, action, verbose, calls, report>>

\* ------------------------------------------------------------------ show
\* A mutant: the padding is one blank, whatever the name.
Spaces_one(n) == " "

RECURSIVE Spaces(_)
Spaces(n) == IF n = 0 THEN "" ELSE " " \o Spaces(n - 1)

\* The cell of one runlevel in the row of one service.
Cell(w, svc, r) ==
  IF rc_service_in_runlevel(w, svc, r) THEN r ELSE Spaces(Len(r))

\* A mutant: inone is set from the last runlevel alone.
InOneAfter_last(io, member) == member

\* inone after one runlevel: set to true where the service is a member.
InOneAfter(io, member) == io \/ member

\* if (! inone && ! verbose) continue
RowSkipped(io, verb) == ~ io /\ ~ verb

\* The report after the row of svc: printed with the cells of "in", or skipped.
ReportAfter(rep, svc, cells, io, verb) ==
  IF RowSkipped(io, verb) THEN rep
  ELSE Append(rep, [service |-> svc, cells |-> cells])

\* The rows printed when there is no runlevel to go through: the inner loop
\* makes no turn and inone stays false.
RECURSIVE EmptyRows(_, _)
EmptyRows(svcs, verb) ==
  IF svcs = <<>> THEN <<>>
  ELSE ReportAfter(<<>>, Head(svcs), <<>>, FALSE, verb)
       \o EmptyRows(Tail(svcs), verb)

\* show: services = rc_services_in_runlevel (NULL), and the entry of the
\* loops.  With no service or no runlevel there is no further registry call
\* and show runs to its end.
show(p) ==
  /\ pc[p] = "show"
  /\ LET services == rc_services_in_runlevel(world[p])
     IN IF services = <<>> \/ runlevels[p] = <<>>
        THEN /\ report' = Upd(report, p, EmptyRows(services, verbose[p]))
             /\ pc' = Upd(pc, p, "done")
        ELSE /\ pc' = Upd(pc, p, "show_in_runlevel")
             /\ UNCHANGED report
  /\ show_i' = Upd(show_i, p, 1)
  /\ show_j' = Upd(show_j, p, 1)
  /\ show_in' = Upd(show_in, p, <<>>)
  /\ inone' = Upd(inone, p, FALSE)
  /\ UNCHANGED <<regvars, world, argv, optind, action, verbose, service,
                 runlevels, retval, num_updated, i, out, calls>>

\* show: one turn of the inner loop, one rc_service_in_runlevel call; after
\* the last runlevel the row is printed or skipped and the next service is
\* taken up.
show_in_runlevel(p) ==
  /\ pc[p] = "show_in_runlevel"
  /\ LET w == world[p]
         services == rc_services_in_runlevel(w)
         svc == services[show_i[p]]
         r == runlevels[p][show_j[p]]
         cells == rc_strlist_add(show_in[p], Cell(w, svc, r))
         io == InOneAfter(inone[p], rc_service_in_runlevel(w, svc, r))
     IN IF show_j[p] < Len(runlevels[p])
        THEN /\ show_j' = Upd(show_j, p, show_j[p] + 1)
             /\ show_in' = Upd(show_in, p, cells)
             /\ inone' = Upd(inone, p, io)
             /\ UNCHANGED <<show_i, report, pc>>
        ELSE /\ report' = Upd(report, p,
                              ReportAfter(report[p], svc, cells, io, verbose[p]))
             /\ show_i' = Upd(show_i, p, show_i[p] + 1)
             /\ show_j' = Upd(show_j, p, 1)
             /\ show_in' = Upd(show_in, p, <<>>)
             /\ inone' = Upd(inone, p, FALSE)
             /\ pc' = Upd(pc, p, IF show_i[p] < Len(services)
                                 THEN "show_in_runlevel" ELSE "done")
  /\ UNCHANGED <<regvars, world, argv, optind, action, verbose, service,
                 runlevels, retval, num_updated, i, out, calls>>

\* ------------------------------------------------------- the mutation batch
\* The head of the loop body: a runlevel that no longer exists is reported
\* and skipped, any other is handed to the action function.
rc_update_foreach(p) ==
  /\ pc[p] = "foreach"
  /\ i[p] <= Len(runlevels[p])
  /\ IF ~ rc_runlevel_exists(world[p], runlevels[p][i[p]])
     THEN /\ out' = Upd(out, p, Append(out[p],
                 Msg("eerror", "runlevel does not exist", runlevels[p][i[p]], NULL)))
          /\ i' = Upd(i, p, i[p] + 1)
          /\ UNCHANGED pc
     ELSE /\ pc' = Upd(pc, p, ActFunc(action[p]))
          /\ UNCHANGED <<out, i>>
  /\ UNCHANGED <<regvars, world, showvars, argv, optind, action, verbose, service,
                 runlevels, retval, num_updated, calls, report>>

\* ret = actfunc (...); if (ret < 0) retval = EXIT_FAILURE; num_updated += ret
RetvalAfter(rv, ret) == IF ret < 0 THEN EXIT_FAILURE ELSE rv

NumUpdatedAfter(n, ret) == n + ret

\* A mutant: an error return of the action function ends the batch.
Returned_abort(p, ret, m) ==
  /\ retval' = Upd(retval, p, RetvalAfter(retval[p], ret))
  /\ num_updated' = Upd(num_updated, p, NumUpdatedAfter(num_updated[p], ret))
  /\ i' = Upd(i, p, i[p] + 1)
  /\ out' = Upd(out, p, Append(out[p], m))
  /\ pc' = Upd(pc, p, IF ret < 0 THEN "done" ELSE "foreach")

\* The action function returns ret after printing m: the loop body ends.
Returned(p, ret, m) ==
  /\ retval' = Upd(retval, p, RetvalAfter(retval[p], ret))
  /\ num_updated' = Upd(num_updated, p, NumUpdatedAfter(num_updated[p], ret))
  /\ i' = Upd(i, p, i[p] + 1)
  /\ out' = Upd(out, p, Append(out[p], m))
  /\ pc' = Upd(pc, p, "foreach")

\* The return values of add and delete.
AddRetMissing == -1
AddRetInstalled == 0
AddRetAdded == 1
AddRetFailed == -1
DeleteRetRemoved == 1
DeleteRetFailed == -1

\* add: if (! rc_service_exists (service))
add(p) ==
  /\ pc[p] = "add"
  /\ IF ~ rc_service_exists(world[p], service[p])
     THEN Returned(p, AddRetMissing,
                   Msg("eerror", "service does not exist", service[p], NULL))
     ELSE /\ pc' = Upd(pc, p, "add_in_runlevel")
          /\ UNCHANGED <<retval, num_updated, i, out>>
  /\ UNCHANGED <<regvars, world, showvars, argv, optind, action, verbose, service,
                 runlevels, calls, report>>

\* A mutant: the membership test is left out.
AlreadyInstalled_never(w, s, r) == FALSE

\* A mutant: the test asks whether the runlevel has any service at all.
AlreadyInstalled_anyservice(w, s, r) == \E m \in members[w] : m[1] = r

\* else if (rc_service_in_runlevel (service, runlevel))
AlreadyInstalled(w, s, r) == rc_service_in_runlevel(w, s, r)

\* add: the membership test and its warning.
add_in_runlevel(p) ==
  /\ pc[p] = "add_in_runlevel"
  /\ IF AlreadyInstalled(world[p], service[p], runlevels[p][i[p]])
     THEN Returned(p, AddRetInstalled,
                   Msg("ewarn", "already installed in runlevel",
                       service[p], runlevels[p][i[p]]))
     ELSE /\ pc' = Upd(pc, p, "add_service_add")
          /\ UNCHANGED <<retval, num_updated, i, out>>
  /\ UNCHANGED <<regvars, world, showvars, argv, optind, action, verbose, service,
                 runlevels, calls, report>>

\* add: else if (rc_service_add (runlevel, service)) ... else eerror
add_service_add(p) ==
  /\ pc[p] = "add_service_add"
  /\ LET w == world[p]
         r == runlevels[p][i[p]]
         ok == rc_service_add(w, r, service[p])
     IN /\ calls' = Upd(calls, p, Append(calls[p],
                        <<"rc_service_add", r, service[p], ok>>))
        /\ IF ok
           THEN /\ members' = Upd(members, w, members[w] \cup {<<r, service[p]>>})
                /\ Returned(p, AddRetAdded,
                            Msg("einfo", "added to runlevel", service[p], r))
           ELSE /\ UNCHANGED members
                /\ Returned(p, AddRetFailed,
                            Msg("eerror", "failed to add service", service[p], r))
  /\ UNCHANGED <<rlExists, broken, current, removals, members0, world,
                 showvars, argv,
                 optind, action, verbose, service, runlevels, report>>

\* A mutant: errno is not looked at.
DeleteError_generic(res, s, r) == Msg("eerror", "failed to remove service", s, r)

\* The error delete prints for the errno rc_service_delete left.
DeleteError(res, s, r) ==
  IF res = "ENOENT"
  THEN Msg("eerror", "is not in the runlevel", s, r)
  ELSE Msg("eerror", "failed to remove service", s, r)

\* delete: the whole function, one rc_service_delete call.
delete(p) ==
  /\ pc[p] = "delete"
  /\ LET w == world[p]
         r == runlevels[p][i[p]]
         res == rc_service_delete(w, r, service[p])
     IN /\ calls' = Upd(calls, p, Append(calls[p],
                        <<"rc_service_delete", r, service[p], res = "ok">>))
        /\ IF res = "ok"
           THEN /\ members' = Upd(members, w, members[w] \ {<<r, service[p]>>})
                /\ Returned(p, DeleteRetRemoved,
                            Msg("einfo", "removed from runlevel", service[p], r))
           ELSE /\ UNCHANGED members
                /\ Returned(p, DeleteRetFailed, DeleteError(res, service[p], r))
  /\ UNCHANGED <<rlExists, broken, current, removals, members0, world,
                 showvars, argv,
                 optind, action, verbose, service, runlevels, report>>

\* if (retval == EXIT_SUCCESS && num_updated == 0 && action & DODELETE)
SummaryWarning(rv, n, act) ==
  rv = EXIT_SUCCESS /\ n = 0 /\ BitAnd(act, DODELETE) # 0

\* The end of the loop: the summary warning, inside which the process may
\* exit, and return (retval).
rc_update_return(p) ==
  /\ pc[p] = "foreach"
  /\ i[p] > Len(runlevels[p])
  /\ IF SummaryWarning(retval[p], num_updated[p], action[p])
     THEN /\ out' = Upd(out, p, Append(out[p],
                 Msg("ewarnx", "not found in any of the specified runlevels",
                     service[p], NULL)))
          /\ \E o \in ewarnx(retval[p]) :
               /\ pc' = Upd(pc, p, o[1])
               /\ retval' = Upd(retval, p, o[2])
     ELSE /\ pc' = Upd(pc, p, "done")
          /\ UNCHANGED <<out, retval>>
  /\ UNCHANGED <<regvars, world, showvars, argv, optind, action, verbose, service,
                 runlevels, num_updated, i, calls, report>>

\* ------------------------------------------------------------ environment
\* While an invocation runs, a runlevel is removed from the registry, with the
\* memberships in it.
RemoveRunlevel(w, r) ==
  /\ removals < MaxRemovals
  /\ \E p \in Procs : world[p] = w /\ pc[p] \notin {"off", "idle", "done", "exited"}
  /\ r \in rlExists[w]
  /\ rlExists' = Upd(rlExists, w, rlExists[w] \ {r})
  /\ members' = Upd(members, w, {m \in members[w] : m[1] # r})
  /\ removals' = removals + 1
  /\ UNCHANGED <<broken, current, members0, world, pc, locals>>

\* ------------------------------------------------------------ specification
\* The registries a behaviour may start from: sshd in any of the runlevels,
\* cron in boot or in none; boot may reject changes; the current runlevel is
\* default or boot, or does not resolve.
MemberSets ==
  SUBSET {<<"default", "sshd">>, <<"boot", "sshd">>, <<"boot", "cron">>}
BrokenSets == {{}, {"boot"}}
CurrentValues == {"default", "boot", NULL}

InitRegistry ==
  /\ \E m \in MemberSets :
       /\ members = [w \in Worlds |-> m]
       /\ members0 = [w \in Worlds |-> m]
  /\ rlExists = [w \in Worlds |-> RunlevelNames]
  /\ \E b \in BrokenSets : broken = [w \in Worlds |-> b]
  /\ \E c \in CurrentValues : current = [w \in Worlds |-> c]
  /\ removals = 0

InitLocals ==
  /\ argv = [p \in Procs |-> <<>>]
  /\ optind = [p \in Procs |-> 1]
  /\ action = [p \in Procs |-> 0]
  /\ verbose = [p \in Procs |-> FALSE]
  /\ service = [p \in Procs |-> NULL]
  /\ runlevels = [p \in Procs |-> <<>>]
  /\ retval = [p \in Procs |-> EXIT_FAILURE]
  /\ num_updated = [p \in Procs |-> 0]
  /\ i = [p \in Procs |-> 1]
  /\ out = [p \in Procs |-> <<>>]
  /\ calls = [p \in Procs |-> <<>>]
  /\ report = [p \in Procs |-> <<>>]
  /\ show_i = [p \in Procs |-> 1]
  /\ show_j = [p \in Procs |-> 1]
  /\ show_in = [p \in Procs |-> <<>>]
  /\ inone = [p \in Procs |-> FALSE]

\* One invocation, against one registry that the environment may change.
Init ==
  /\ InitRegistry
  /\ InitLocals
  /\ world = [p \in Procs |-> 1]
  /\ pc = [p \in Procs |-> IF p = 1 THEN "idle" ELSE "off"]

\* What rc_yesno (getenv ("EINFO_VERBOSE")) can be: the variable set to yes,
\* or unset.
EinfoVerbose == BOOLEAN

Invoke(p) ==
  /\ pc[p] = "idle"
  /\ \E flags \in SUBSET Flags, args \in ArgLists, v \in EinfoVerbose :
       rc_update_resolve(p, flags, args, v)

Step(p) ==
  \/ rc_update_validate(p)
  \/ rc_update_dispatch(p)
  \/ show(p)
  \/ show_in_runlevel(p)
  \/ rc_update_foreach(p)
  \/ add(p)
  \/ add_in_runlevel(p)
  \/ add_service_add(p)
  \/ delete(p)
  \/ rc_update_return(p)

Environment == \E r \in RunlevelNames : RemoveRunlevel(1, r)

Next ==
  \/ Invoke(1)
  \/ Step(1)
  \/ Environment

Spec == Init /\ [][Next]_vars

\* ------------------------------------------------- one invocation, run to its end
\* The command lines of the invocation: a service and up to three runlevels.
FairArgLists ==
  { <<"sshd">>, <<"sshd", "default">>, <<"sshd", "boot", "default">>,
    <<"sshd", "default", "boot", "default">>, <<"cron", "boot", "bogus">>,
    <<"default", "boot">> }

InvokeFair(p) ==
  /\ pc[p] = "idle"
  /\ \E f \in Flags, args \in FairArgLists, v \in EinfoVerbose :
       rc_update_resolve(p, {f}, args, v)

NextFair ==
  \/ InvokeFair(1)
  \/ Step(1)
  \/ Environment

\* rc_update is sequential code and every registry call returns: an
\* invocation that has a step to take goes on to take it.
SpecFair == Init /\ [][NextFair]_vars /\ WF_vars(Step(1))

Terminated(p) == pc[p] \in {"done", "exited"}

\* ----------------------------------------- legacy and flag form side by side
\* The command words that select the command of a flag.
LegacyWords(act) ==
  IF act = DOADD THEN {"add"}
  ELSE IF act = DODELETE THEN {"delete", "del"}
  ELSE {"show"}

\* Two invocations against two registries that start equal: process 2 is given
\* one command flag and some arguments, process 1 the command word and the
\* same arguments.  Process 1 runs first, then process 2.
InitLegacy ==
  /\ InitRegistry
  /\ InitLocals
  /\ world = [p \in Procs |-> p]
  /\ pc = [p \in Procs |-> "idle"]

FlagForm(p) ==
  /\ pc[p] = "idle"
  /\ \E f \in Flags, args \in ArgLists, v \in EinfoVerbose :
       rc_update_resolve(p, {f}, args, v)

LegacyForm(p, q) ==
  /\ pc[p] = "idle"
  /\ pc[q] # "idle"
  /\ \E word \in LegacyWords(action[q]) :
       rc_update_resolve(p, {}, <<word>> \o argv[q], verbose[q])

\* The steps of p, taken once q has ended.
StepAfter(p, q) ==
  \/ Terminated(q) /\ rc_update_validate(p)
  \/ Terminated(q) /\ rc_update_dispatch(p)
  \/ Terminated(q) /\ show(p)
  \/ Terminated(q) /\ show_in_runlevel(p)
  \/ Terminated(q) /\ rc_update_foreach(p)
  \/ Terminated(q) /\ add(p)
  \/ Terminated(q) /\ add_in_runlevel(p)
  \/ Terminated(q) /\ add_service_add(p)
  \/ Terminated(q) /\ delete(p)
  \/ Terminated(q) /\ rc_update_return(p)

NextLegacy ==
  \/ FlagForm(2)
  \/ LegacyForm(1, 2)
  \/ Step(1)
  \/ StepAfter(2, 1)

SpecLegacy == InitLegacy /\ [][NextLegacy]_vars

\* ------------------------------------------------ one invocation after another
\* The command lines of the two invocations.
SeqArgLists ==
  { <<"sshd">>, <<"sshd", "default">>, <<"sshd", "boot">>,
    <<"sshd", "default", "boot">>, <<"sshd", "bogus">>, <<"cron", "boot">> }

\* Two invocations against one registry, the second started when the first
\* has ended; nothing else changes the registry.
InitSeq ==
  /\ InitRegistry
  /\ InitLocals
  /\ world = [p \in Procs |-> 1]
  /\ pc = [p \in Procs |-> "idle"]

InvokeSeq(p) ==
  /\ pc[p] = "idle"
  /\ \A q \in Procs : q < p => Terminated(q)
  /\ \E f \in Flags, args \in SeqArgLists, v \in EinfoVerbose :
       /\ \A q \in Procs : q < p => v = verbose[q]
       /\ rc_update_resolve(p, {f}, args, v)

NextSeq == \E p \in Procs : InvokeSeq(p) \/ Step(p)

SpecSeq == InitSeq /\ [][NextSeq]_vars

\* ------------------------------------------------ invocations side by side
\* Processes 1 and 2 run at the same time against registry 1; processes 3 and
\* 4 are given the same two command lines and run one after the other against
\* registry 2, which starts equal to registry 1.
IlvProcs == {1, 2}
RefProcs == {3, 4}
ConcProcs == IlvProcs \cup RefProcs

\* The command lines of the invocations: adds and deletes.
ConcFlags == {"a", "d"}
ConcArgLists ==
  { <<"sshd", "default">>, <<"sshd", "boot">>, <<"sshd", "default", "boot">>,
    <<"cron", "boot">> }

\* The getopt letter of a command.
FlagOf(act) ==
  IF act = DOADD THEN "a" ELSE IF act = DODELETE THEN "d" ELSE "s"

InitConc ==
  /\ InitRegistry
  /\ argv = [p \in ConcProcs |-> <<>>]
  /\ optind = [p \in ConcProcs |-> 1]
  /\ action = [p \in ConcProcs |-> 0]
  /\ verbose = [p \in ConcProcs |-> FALSE]
  /\ service = [p \in ConcProcs |-> NULL]
  /\ runlevels = [p \in ConcProcs |-> <<>>]
  /\ retval = [p \in ConcProcs |-> EXIT_FAILURE]
  /\ num_updated = [p \in ConcProcs |-> 0]
  /\ i = [p \in ConcProcs |-> 1]
  /\ out = [p \in ConcProcs |-> <<>>]
  /\ calls = [p \in ConcProcs |-> <<>>]
  /\ report = [p \in ConcProcs |-> <<>>]
  /\ show_i = [p \in ConcProcs |-> 1]
  /\ show_j = [p \in ConcProcs |-> 1]
  /\ show_in = [p \in ConcProcs |-> <<>>]
  /\ inone = [p \in ConcProcs |-> FALSE]
  /\ world = [p \in ConcProcs |-> IF p \in IlvProcs THEN 1 ELSE 2]
  /\ pc = [p \in ConcProcs |-> "idle"]

\* A reference invocation is started with some command line.
InvokeRef(p) ==
  /\ pc[p] = "idle"
  /\ \A q \in RefProcs : q < p => pc[q] # "idle"
  /\ \E f \in ConcFlags, args \in ConcArgLists, v \in EinfoVerbose :
       /\ \A q \in RefProcs : q < p => v = verbose[q]
       /\ rc_update_resolve(p, {f}, args, v)

\* Process p is started with the command line of q.
InvokeCopy(p, q) ==
  /\ pc[p] = "idle"
  /\ \A r \in RefProcs : pc[r] # "idle"
  /\ rc_update_resolve(p, {FlagOf(action[q])}, argv[q], verbose[q])

\* When p may take a step: the reference invocations once all four have been
\* started, 3 before 4; processes 1 and 2 after them, in any interleaving.
Ready(p) ==
  IF p \in RefProcs
  THEN /\ \A q \in ConcProcs : pc[q] # "idle"
       /\ \A q \in RefProcs : q < p => Terminated(q)
  ELSE \A q \in RefProcs : Terminated(q)

ConcStep(p) ==
  \/ Ready(p) /\ rc_update_validate(p)
  \/ Ready(p) /\ rc_update_dispatch(p)
  \/ Ready(p) /\ rc_update_foreach(p)
  \/ Ready(p) /\ add(p)
  \/ Ready(p) /\ add_in_runlevel(p)
  \/ Ready(p) /\ add_service_add(p)
  \/ Ready(p) /\ delete(p)
  \/ Ready(p) /\ rc_update_return(p)

NextConc ==
  \/ \E p \in RefProcs : InvokeRef(p)
  \/ \E p \in IlvProcs : InvokeCopy(p, p + 2)
  \/ \E p \in ConcProcs : ConcStep(p)

SpecConc == InitConc /\ [][NextConc]_vars

\* ================================================================ properties
Range(f) == {f[k] : k \in DOMAIN f}

Last(q) == q[Len(q)]

\* The errors an action function (add, delete) prints when it returns -1.
ActionErrors ==
  {"service does not exist", "failed to add service",
   "is not in the runlevel", "failed to remove service"}

SummaryText == "not found in any of the specified runlevels"

\* The successful registry mutations p has made.
Succeeded(p) == {k \in 1..Len(calls[p]) : calls[p][k][4]}

\* ---------------------------------------------------------------------- C1
\* C1: a Delete invocation for a service over existing runlevels, in none of
\* which the service is a member, ends with exit status success, a count of
\* zero successful mutations and exactly one "not found in any of the
\* specified runlevels" warning.
C1_DeleteOfNonMemberIsWarning ==
  \A p \in Procs :
    ( /\ pc[p] = "done"
      /\ action[p] = DODELETE
      /\ service[p] \in ServiceNames
      /\ removals = 0
      /\ \A k \in 1..Len(runlevels[p]) :
           /\ runlevels[p][k] \in rlExists[world[p]]
           /\ <<runlevels[p][k], service[p]>> \notin members0[world[p]] )
    => /\ retval[p] = EXIT_SUCCESS
       /\ num_updated[p] = 0
       /\ Succeeded(p) = {}
       /\ Cardinality({k \in 1..Len(out[p]) : out[p][k][2] = SummaryText}) = 1

\* ---------------------------------------------------------------------- C2
\* C2: an Add or Delete invocation that supplies no service argument ends
\* with a non-zero exit status and no registry mutation; a Show invocation
\* with no further argument ends with exit status success.
C2_MissingServiceFails ==
  \A p \in Procs :
    /\ ( /\ Terminated(p)
         /\ action[p] \in {DOADD, DODELETE}
         /\ service[p] = NULL )
       => (retval[p] # EXIT_SUCCESS /\ calls[p] = <<>>)
    /\ ( /\ Terminated(p)
         /\ action[p] = DOSHOW
         /\ pc[p] = "done"
         /\ service[p] = NULL )
       => retval[p] = EXIT_SUCCESS

\* ---------------------------------------------------------------------- C3
\* C3: in a finished Add invocation (the registry otherwise left alone), every
\* successful add leaves the service a member of that runlevel; an add for a
\* pair that is already a member (from the start, or from an earlier add of
\* this invocation) prints the already-installed warning, calls
\* rc_service_add for no such pair, and, when every runlevel was such,
\* leaves the registry as it was, the count 0 and the exit status success.
C3_AddIdempotent ==
  \A p \in Procs :
    ( /\ pc[p] = "done"
      /\ action[p] = DOADD
      /\ service[p] \in ServiceNames
      /\ removals = 0 )
    => LET w == world[p]
           s == service[p]
           rls == runlevels[p]
       IN /\ \A c \in Succeeded(p) : <<calls[p][c][2], s>> \in members[w]
          /\ Len(out[p]) = Len(rls)
          /\ \A k \in 1..Len(rls) :
               ( <<rls[k], s>> \in members0[w]
                 \/ \E j \in 1..(k - 1) :
                      rls[j] = rls[k] /\ out[p][j][2] = "added to runlevel" )
               => out[p][k] = Msg("ewarn", "already installed in runlevel",
                                  s, rls[k])
          /\ \A c \in 1..Len(calls[p]) :
               /\ calls[p][c][1] = "rc_service_add"
               /\ <<calls[p][c][2], s>> \notin members0[w]
               /\ \A d \in 1..(c - 1) :
                    calls[p][d][2] = calls[p][c][2] => ~ calls[p][d][4]
          /\ (\A k \in 1..Len(rls) : <<rls[k], s>> \in members0[w])
             => /\ calls[p] = <<>>
                /\ members[w] = members0[w]
                /\ num_updated[p] = 0
                /\ retval[p] = EXIT_SUCCESS

\* The same runlevel named twice: the first add succeeds, the second is the
\* no-op.
C3_Witness ==
  /\ pc[1] = "done"
  /\ action[1] = DOADD
  /\ runlevels[1] = <<"default", "default">>
  /\ calls[1] = <<<<"rc_service_add", "default", "sshd", TRUE>>>>
  /\ out[1] = << Msg("einfo", "added to runlevel", "sshd", "default"),
                 Msg("ewarn", "already installed in runlevel", "sshd", "default") >>
  /\ num_updated[1] = 1
  /\ retval[1] = EXIT_SUCCESS

\* ---------------------------------------------------------------------- C4
\* C4: in a finished Delete invocation (the registry otherwise left alone),
\* every successful delete leaves the service out of that runlevel; a delete
\* for a pair that is no member (from the start, or since an earlier delete
\* of this invocation) prints the not-in-the-runlevel error for that runlevel
\* and changes nothing: the registry ends as it started less the pairs
\* deleted successfully.
C4_DeleteThenNotAMember ==
  \A p \in Procs :
    ( /\ pc[p] = "done"
      /\ action[p] = DODELETE
      /\ service[p] # NULL
      /\ removals = 0 )
    => LET w == world[p]
           s == service[p]
           rls == runlevels[p]
           msgs == SelectSeq(out[p], LAMBDA m : m[2] # SummaryText)
       IN /\ \A c \in Succeeded(p) : <<calls[p][c][2], s>> \notin members[w]
          /\ Len(msgs) = Len(rls)
          /\ Len(calls[p]) = Len(rls)
          /\ \A k \in 1..Len(rls) :
               ( <<rls[k], s>> \notin members0[w]
                 \/ \E j \in 1..(k - 1) : rls[j] = rls[k] /\ calls[p][j][4] )
               => /\ msgs[k] = Msg("eerror", "is not in the runlevel", s, rls[k])
                  /\ ~ calls[p][k][4]
          /\ members[w] =
               members0[w] \ {<<calls[p][c][2], s>> : c \in Succeeded(p)}

\* The same runlevel named twice: the first delete succeeds, the second
\* reports that the service is not in the runlevel.
C4_Witness ==
  /\ pc[1] = "done"
  /\ action[1] = DODELETE
  /\ runlevels[1] = <<"default", "default">>
  /\ calls[1] = << <<"rc_service_delete", "default", "sshd", TRUE>>,
                   <<"rc_service_delete", "default", "sshd", FALSE>> >>
  /\ out[1] = << Msg("einfo", "removed from runlevel", "sshd", "default"),
                 Msg("eerror", "is not in the runlevel", "sshd", "default") >>
  /\ <<"default", "sshd">> \notin members[1]

\* ---------------------------------------------------------------------- C5
\* p takes a step of its own.
Moves(p) == pc'[p] # pc[p] \/ optind'[p] # optind[p] \/ i'[p] # i[p]

\* C5: when the validation loop meets a token that names no existing
\* runlevel, the invocation exits with failure, its last message names that
\* token, and nothing has been or is changed in the registry; and no mutation
\* call is ever made before every positional argument has gone through the
\* loop.
C5_UnknownRunlevelIsFatal ==
  [][ \A p \in Procs :
        /\ ( /\ pc[p] = "validate"
             /\ Moves(p)
             /\ ~ rc_runlevel_exists(world[p], argv[p][optind[p]]) )
           => /\ pc'[p] = "exited"
              /\ retval'[p] = EXIT_FAILURE
              /\ Last(out'[p]) = Msg("eerrorx", "is not a valid runlevel",
                                     argv[p][optind[p]], NULL)
              /\ calls'[p] = <<>>
              /\ members' = members
        /\ calls'[p] # <<>> => optind'[p] = Len(argv'[p]) + 1
        /\ pc'[p] = "exited" => calls'[p] = <<>>
    ]_vars

\* An add that names a valid runlevel and then an unknown one has exited
\* naming the unknown one, the registry untouched.
C5_Witness ==
  /\ pc[1] = "exited"
  /\ action[1] = DOADD
  /\ out[1] = <<Msg("eerrorx", "is not a valid runlevel", "bogus", NULL)>>
  /\ calls[1] = <<>>
  /\ members[1] = members0[1]
  /\ removals = 0

\* ---------------------------------------------------------------------- C6
\* C6: an invocation given more than one of the add, delete and show flags
\* exits with failure on "cannot mix commands", its only message, with no
\* registry call made and no report printed, whatever its arguments.
C6_ConflictingCommandsFatal ==
  \A p \in Procs :
    ( /\ pc[p] \notin {"off", "idle"}
      /\ action[p] \notin {0, DOADD, DODELETE, DOSHOW} )
    => /\ pc[p] = "exited"
       /\ retval[p] = EXIT_FAILURE
       /\ out[p] = <<Msg("eerrorx", "cannot mix commands", NULL, NULL)>>
       /\ calls[p] = <<>>
       /\ report[p] = <<>>
       /\ runlevels[p] = <<>>

\* --add together with --delete.
C6_Witness ==
  /\ pc[1] = "exited"
  /\ action[1] = DOADD + DODELETE
  /\ out[1] = <<Msg("eerrorx", "cannot mix commands", NULL, NULL)>>
  /\ retval[1] = EXIT_FAILURE

\* ---------------------------------------------------------------------- C7
\* C7: process 1, given a command word and arguments, and process 2, given
\* the flag of that command and the same arguments, against equal registries:
\* once both are resolved they hold the same command and the same service
\* (the word is consumed, the service is the token after it), and once both
\* have ended they have made the same sequence of registry mutation calls,
\* left equal registries and returned the same exit status.
C7_LegacyEquivalence ==
  ( /\ world[1] # world[2]
    /\ pc[1] \notin {"off", "idle"}
    /\ pc[2] \notin {"off", "idle"} )
  => /\ action[1] = action[2]
     /\ (pc[1] # "exited" /\ pc[2] # "exited")
        => /\ argv[1] = <<argv[1][1]>> \o argv[2]
           /\ argv[1][1] \in LegacyWords(action[2])
           /\ service[1] = service[2]
           /\ service[1] = IF Len(argv[1]) >= 2 THEN argv[1][2] ELSE NULL
     /\ (Terminated(1) /\ Terminated(2))
        => /\ calls[1] = calls[2]
           /\ members[world[1]] = members[world[2]]
           /\ retval[1] = retval[2]
           /\ pc[1] = pc[2]

\* "del sshd default boot" and "--delete sshd default boot" have both ended,
\* each having removed sshd from default.
C7_Witness ==
  /\ world[1] # world[2]
  /\ pc[1] = "done" /\ pc[2] = "done"
  /\ argv[1] = <<"del", "sshd", "default", "boot">>
  /\ argv[2] = <<"sshd", "default", "boot">>
  /\ calls[1] = << <<"rc_service_delete", "default", "sshd", TRUE>>,
                   <<"rc_service_delete", "boot", "sshd", FALSE>> >>
  /\ calls[2] = calls[1]
  /\ retval[1] = EXIT_FAILURE /\ retval[2] = EXIT_FAILURE

\* ---------------------------------------------------------------------- C8
\* The pairs an Add or Delete invocation is aimed at.
Target(p) ==
  IF action[p] \in {DOADD, DODELETE} /\ service[p] # NULL
  THEN {<<r, service[p]>> : r \in Range(runlevels[p])}
  ELSE {}

Changed(w) == (members[w] \ members0[w]) \cup (members0[w] \ members[w])

\* C8: with invocations run one after another and nothing else changing the
\* registry, the only pairs whose membership differs from the start are pairs
\* (runlevel, service) an Add or Delete invocation was aimed at; and when an
\* Add that added the service to each of its runlevels is followed by a
\* Delete of the same service over the same runlevels, the registry is back
\* as it was before the add, with the service in none of those runlevels.
C8_FrameAndRoundTrip ==
  /\ \A w \in Worlds :
       Changed(w) \subseteq UNION {Target(p) : p \in {q \in Procs : world[q] = w}}
  /\ ( /\ world[1] = world[2]
       /\ pc[1] = "done" /\ action[1] = DOADD
       /\ pc[2] = "done" /\ action[2] = DODELETE
       /\ service[1] # NULL /\ service[2] = service[1]
       /\ runlevels[2] = runlevels[1]
       /\ \A r \in Range(runlevels[1]) :
            \E c \in Succeeded(1) : calls[1][c][2] = r )
     => /\ members[world[1]] = members0[world[1]]
        /\ \A r \in Range(runlevels[1]) :
             <<r, service[1]>> \notin members[world[1]]

\* "--add sshd default" then "--delete sshd default", cron staying in boot.
C8_Witness ==
  /\ world[1] = world[2]
  /\ pc[1] = "done" /\ pc[2] = "done"
  /\ calls[1] = <<<<"rc_service_add", "default", "sshd", TRUE>>>>
  /\ calls[2] = <<<<"rc_service_delete", "default", "sshd", TRUE>>>>
  /\ members[1] = members0[1]
  /\ <<"boot", "cron">> \in members[1]
  /\ <<"default", "sshd">> \notin members[1]

\* ---------------------------------------------------------------------- C9
\* C9: at every turn of the batch loop and at the end of the invocation, the
\* exit status of an Add or Delete invocation that passed validation is
\* failure exactly if some action call has printed one of its errors (service
\* does not exist, failed to add, not in the runlevel, failed to remove); so
\* an all-no-op add ends in success and a failure is not cleared by a later
\* success.
C9_ExitStatusIffActionError ==
  \A p \in Procs :
    ( /\ \/ pc[p] \in {"foreach", "done"}
         \/ pc[p] = "exited" /\ out[p] # <<>> /\ Last(out[p])[1] = "ewarnx"
      /\ action[p] \in {DOADD, DODELETE}
      /\ service[p] # NULL )
    => ( retval[p] = EXIT_FAILURE
         <=> \E k \in 1..Len(out[p]) :
               out[p][k][1] = "eerror" /\ out[p][k][2] \in ActionErrors )

\* --------------------------------------------------------------------- C10
\* C10: every runlevel name that Show hands to the report renderer has passed
\* the runlevel-existence check, so a Show naming an unknown runlevel renders
\* no report.
C10_ShowRejectsUnknownRunlevel ==
  \A p \in Procs :
    (pc[p] = "done" /\ action[p] = DOSHOW)
    => \A k \in 1..Len(runlevels[p]) : runlevels[p][k] \in RunlevelNames

\* --------------------------------------------------------------------- C11
\* The positions of rc_update at which the batch of an add or delete runs.
BatchPcs == {"foreach", "add", "add_in_runlevel", "add_service_add", "delete"}

\* C11: when the dispatch is reached with no runlevel named, a Show with no
\* argument gets the registry's list of all runlevels; an Add or Delete gets
\* the current runlevel alone, or, when the current runlevel does not resolve,
\* exits with failure on "no runlevels found" with no registry call made.  The
\* list is not changed afterwards, and every registry call names a runlevel of
\* it.
C11_DefaultRunlevels ==
  [][ \A p \in Procs :
        /\ ( /\ pc[p] = "dispatch"
             /\ pc'[p] # "dispatch"
             /\ runlevels[p] = <<>> )
           => /\ (action[p] = DOSHOW /\ service[p] = NULL)
                 => /\ pc'[p] = "show"
                    /\ runlevels'[p] =
                         SelectSeq(AllRunlevels,
                                   LAMBDA r : r \in rlExists[world[p]])
              /\ (action[p] \in {DOADD, DODELETE} /\ service[p] # NULL)
                 => IF current[world[p]] = NULL
                    THEN /\ pc'[p] = "exited"
                         /\ retval'[p] = EXIT_FAILURE
                         /\ Last(out'[p]) =
                              Msg("eerrorx", "no runlevels found", NULL, NULL)
                         /\ calls'[p] = <<>>
                         /\ members' = members
                    ELSE /\ pc'[p] = "foreach"
                         /\ runlevels'[p] = <<current[world[p]]>>
        /\ (pc[p] \in BatchPcs \cup {"show", "show_in_runlevel"})
           => runlevels'[p] = runlevels[p]
        /\ \A k \in 1..Len(calls'[p]) :
             calls'[p][k][2] \in Range(runlevels'[p])
    ]_vars

\* "--add sshd" with boot the current runlevel has added sshd to boot, and to
\* boot alone.
C11_Witness ==
  /\ pc[1] = "done"
  /\ action[1] = DOADD
  /\ current[1] = "boot"
  /\ argv[1] = <<"sshd">>
  /\ runlevels[1] = <<"boot">>
  /\ calls[1] = <<<<"rc_service_add", "boot", "sshd", TRUE>>>>
  /\ members[1] = members0[1] \cup {<<"boot", "sshd">>}

\* --------------------------------------------------------------------- C12
\* The services of the rows of a report, in the order printed.
RowServices(rep) == [k \in 1..Len(rep) |-> rep[k].service]

\* C12: a finished Show has printed its rows in the registry's order of the
\* services, one row per service at most; with verbose on, a row for every
\* service; with verbose off, a row for exactly the services with a
\* membership marker among their cells: every service that is (still) in one
\* of the runlevels, and none that was in no runlevel of them from the start
\* (the two are the same services when no runlevel was removed meanwhile).
\* Show has made no registry call that changes a membership.
C12_ShowRows ==
  \A p \in Procs :
    (pc[p] = "done" /\ action[p] = DOSHOW)
    => LET w == world[p]
           rls == runlevels[p]
           rows == RowServices(report[p])
           Printed(s) == s \in Range(rows)
           InNow(s) == \E r \in Range(rls) : <<r, s>> \in members[w]
           In0(s) == \E r \in Range(rls) : <<r, s>> \in members0[w]
       IN /\ rows = SelectSeq(AllServices, Printed)
          /\ \A j, k \in 1..Len(rows) : rows[j] = rows[k] => j = k
          /\ verbose[p] => rows = AllServices
          /\ ~ verbose[p]
             => /\ \A k \in 1..Len(report[p]) :
                     \E j \in 1..Len(rls) : report[p][k].cells[j] = rls[j]
                /\ \A s \in ServiceNames :
                     /\ InNow(s) => Printed(s)
                     /\ Printed(s) => In0(s)
          /\ calls[p] = <<>>
          /\ removals = 0 => members[w] = members0[w]

\* Verbose off, sshd in default and cron in no runlevel: the report over
\* default and boot has the row of sshd and no row of cron.
C12_Witness ==
  /\ pc[1] = "done"
  /\ action[1] = DOSHOW
  /\ ~ verbose[1]
  /\ members[1] = {<<"default", "sshd">>}
  /\ Range(runlevels[1]) = {"default", "boot"}
  /\ RowServices(report[1]) = <<"sshd">>

\* --------------------------------------------------------------------- C13
\* The run of blanks as wide as each name a report may be asked for.
BlankOf(r) ==
  CASE r = "default" -> "       "
    [] r = "boot" -> "    "
    [] r = "bogus" -> "     "
    [] r = "sshd" -> "    "
    [] r = "show" -> "    "
    [] r = "add" -> "   "
    [] r = "del" -> "   "
    [] r = "delete" -> "      "

\* C13: every row of a finished Show has one cell per runlevel of the report,
\* in the order of the runlevels: each cell is the runlevel's name or blanks
\* as many as the name is long; it is the name where the service is (still) a
\* member of the runlevel, and only where it was one from the start.
C13_RowCells ==
  \A p \in Procs :
    (pc[p] = "done" /\ action[p] = DOSHOW)
    => \A k \in 1..Len(report[p]) :
         LET row == report[p][k]
             rls == runlevels[p]
             w == world[p]
         IN /\ Len(row.cells) = Len(rls)
            /\ \A j \in 1..Len(rls) :
                 /\ Len(row.cells[j]) = Len(rls[j])
                 /\ row.cells[j] \in {rls[j], BlankOf(rls[j])}
                 /\ <<rls[j], row.service>> \in members[w]
                    => row.cells[j] = rls[j]
                 /\ row.cells[j] = rls[j]
                    => <<rls[j], row.service>> \in members0[w]

\* sshd in default only, the report over default and boot: "default", then
\* four blanks.
C13_Witness ==
  /\ pc[1] = "done"
  /\ action[1] = DOSHOW
  /\ runlevels[1] = <<"default", "boot">>
  /\ \E k \in 1..Len(report[1]) :
       /\ report[1][k].service = "sshd"
       /\ report[1][k].cells = <<"default", "    ">>

\* --------------------------------------------------------------------- C14
\* The text of the error for a runlevel that is gone at its turn.
SkippedText == "runlevel does not exist"

\* C14: an Add or Delete of a known service that has returned and that
\* found a runlevel gone at its turn has printed the error naming that
\* runlevel at that turn, has made no registry call on it then, has gone on
\* through the remaining runlevels, and ends with a non-zero exit status.
C14_VanishedRunlevelFails ==
  \A p \in Procs :
    ( /\ pc[p] = "done"
      /\ action[p] \in {DOADD, DODELETE}
      /\ service[p] \in ServiceNames
      /\ \E k \in 1..Len(out[p]) : out[p][k][2] = SkippedText )
    => /\ Len(out[p]) = Len(runlevels[p])
       /\ \A k \in 1..Len(out[p]) :
            out[p][k][2] = SkippedText
            => out[p][k] = Msg("eerror", SkippedText, runlevels[p][k], NULL)
       /\ Len(calls[p]) <=
            Cardinality({k \in 1..Len(out[p]) : out[p][k][2] # SkippedText})
       /\ retval[p] # EXIT_SUCCESS

\* --------------------------------------------------------------------- C15
\* The positions inside the action functions add and delete.
ActionPcs == BatchPcs \ {"foreach"}

\* C15: at its turn i a runlevel that exists is handed to the action function
\* of the command, with no turn skipped or repeated, and one that is gone is
\* skipped without a registry call; the action function makes at most one
\* registry call, on the runlevel of the turn, and whatever it returns the
\* loop goes on to turn i + 1; past the last turn the invocation ends; and an
\* invocation in its batch does reach its end.
C15_BatchInOrder ==
  /\ [][ \A p \in Procs :
           /\ (pc[p] = "foreach" /\ Moves(p) /\ i[p] <= Len(runlevels[p]))
              => IF runlevels[p][i[p]] \in rlExists[world[p]]
                 THEN /\ pc'[p] = (IF action[p] = DOADD THEN "add" ELSE "delete")
                      /\ i'[p] = i[p]
                      /\ calls'[p] = calls[p]
                 ELSE /\ pc'[p] = "foreach"
                      /\ i'[p] = i[p] + 1
                      /\ calls'[p] = calls[p]
           /\ (pc[p] \in ActionPcs /\ Moves(p))
              => /\ \/ pc'[p] \in ActionPcs /\ i'[p] = i[p]
                    \/ /\ pc'[p] = "foreach"
                       /\ i'[p] = i[p] + 1
                       /\ Len(out'[p]) = Len(out[p]) + 1
                 /\ \/ calls'[p] = calls[p]
                    \/ /\ Len(calls'[p]) = Len(calls[p]) + 1
                       /\ Last(calls'[p])[2] = runlevels[p][i[p]]
                       /\ \A k \in 1..Len(calls[p]) : calls'[p][k] = calls[p][k]
           /\ (pc[p] = "foreach" /\ Moves(p) /\ i[p] > Len(runlevels[p]))
              => /\ pc'[p] \in {"done", "exited"}
                 /\ i[p] = Len(runlevels[p]) + 1
     ]_vars
  /\ \A p \in Procs : (pc[p] \in BatchPcs) ~> Terminated(p)

\* "--add sshd boot default" with boot rejecting changes: the add to boot has
\* failed and the add to default has been made after it.
C15_Witness ==
  /\ pc[1] = "done"
  /\ action[1] = DOADD
  /\ runlevels[1] = <<"boot", "default">>
  /\ calls[1] = << <<"rc_service_add", "boot", "sshd", FALSE>>,
                   <<"rc_service_add", "default", "sshd", TRUE>> >>
  /\ i[1] = 3

\* --------------------------------------------------------------------- C16
\* The positional arguments a Show was given after its command: all of them
\* end up in the list handed to show.
Requested(p) ==
  SubSeq(argv[p], Len(argv[p]) - Len(runlevels[p]) + 1, Len(argv[p]))

\* C16: a finished Show that was given existing runlevels r1..rn has rendered its
\* cells in the order r1, r2, ..., rn.
C16_ShowCellsInRequestedOrder ==
  \A p \in Procs :
    ( /\ pc[p] = "done"
      /\ action[p] = DOSHOW
      /\ service[p] # NULL
      /\ Range(Requested(p)) \subseteq RunlevelNames )
    => /\ runlevels[p] = Requested(p)
       /\ \A k \in 1..Len(report[p]) :
            \A j \in 1..Len(Requested(p)) :
              report[p][k].cells[j] \in {Requested(p)[j], BlankOf(Requested(p)[j])}

\* --------------------------------------------------------------------- C17
\* The positions of rc_update after command resolution.
ResolvedPcs ==
  {"validate", "dispatch", "show", "show_in_runlevel", "done"} \cup BatchPcs

\* C17: once the command is resolved, exactly one of the add, delete and show
\* bits is set; an Add has called rc_service_add only, a Delete
\* rc_service_delete only, a Show neither, and every call names the service
\* of the invocation.
C17_OneCommandOneKind ==
  \A p \in Procs :
    pc[p] \in ResolvedPcs
    => /\ action[p] \in {DOADD, DODELETE, DOSHOW}
       /\ action[p] = DOSHOW => calls[p] = <<>>
       /\ \A k \in 1..Len(calls[p]) :
            /\ action[p] = DOADD => calls[p][k][1] = "rc_service_add"
            /\ action[p] = DODELETE => calls[p][k][1] = "rc_service_delete"
            /\ calls[p][k][3] = service[p]

\* "--delete sshd default boot" with sshd in both: two removals, both of sshd.
C17_Witness ==
  /\ pc[1] = "done"
  /\ action[1] = DODELETE
  /\ service[1] = "sshd"
  /\ calls[1] = << <<"rc_service_delete", "default", "sshd", TRUE>>,
                   <<"rc_service_delete", "boot", "sshd", TRUE>> >>

\* --------------------------------------------------------------------- C18
\* C18: processes 1 and 2, interleaved in any way at the granularity of single
\* registry calls, and processes 3 and 4, given the same command lines and run
\* one after the other against an equal registry: when the pairs 1 and 2 are
\* aimed at are disjoint, both registries end with the same memberships and
\* each invocation with the exit status of its sequential counterpart.
C18_DisjointInterleavingAsSequential ==
  ( /\ DOMAIN pc = ConcProcs
    /\ \A p \in ConcProcs : Terminated(p)
    /\ Target(1) \cap Target(2) = {} )
  => /\ members[world[1]] = members[world[3]]
     /\ retval[1] = retval[3]
     /\ retval[2] = retval[4]

\* "--add sshd default boot" next to "--delete cron boot": sshd is in both
\* runlevels and cron in none, in both registries.
C18_Witness ==
  /\ DOMAIN pc = ConcProcs
  /\ \A p \in ConcProcs : pc[p] = "done"
  /\ action[1] = DOADD /\ action[2] = DODELETE
  /\ runlevels[1] = <<"default", "boot">>
  /\ service[2] = "cron"
  /\ Cardinality(Succeeded(1)) = 2 /\ Cardinality(Succeeded(2)) = 1
  /\ members[1] = {<<"default", "sshd">>, <<"boot", "sshd">>}
  /\ members[2] = members[1]

\* --------------------------------------------------------------------- C19
\* C19: with Add invocations for one pair interleaved, rc_service_add is
\* never called for a pair that is a member at the moment of the call, and
\* (the runlevel accepting changes) the call ends in "added to runlevel".
C19_AddNeverOnMember ==
  [][ \A p \in DOMAIN pc :
        (pc[p] = "add_service_add" /\ Moves(p))
        => /\ <<runlevels[p][i[p]], service[p]>> \notin members[world[p]]
           /\ runlevels[p][i[p]] \notin broken[world[p]]
              => Last(out'[p])[2] = "added to runlevel"
    ]_vars

\* --------------------------------------------------------------------- C20
\* C20: during and at the end of an Add or Delete batch for a known service
\* num_updated is never
\* negative, and at the end it is the number of runlevels whose mutation
\* succeeded.
C20_CountIsSuccesses ==
  \A p \in Procs :
    ( /\ pc[p] \in BatchPcs \cup {"done"}
      /\ action[p] \in {DOADD, DODELETE}
      /\ service[p] \in ServiceNames )
    => /\ num_updated[p] >= 0
       /\ pc[p] = "done" => num_updated[p] = Cardinality(Succeeded(p))

====
